---- MODULE Spec2Model ----
(***************************************************************************)
(* A model of the rate-limited follow engine of sheikh-developer/sheikh:   *)
(* the RateLimiter, getAllFollowers, isActiveUser and the follow handler   *)
(* of the Next.js API route (src/unnamed/part_001).                        *)
(*                                                                         *)
(* Time is counted in whole seconds: every duration of the code, given     *)
(* there in milliseconds, is divided by 1000 (60000 ms = 60, 3000 ms = 3). *)
(***************************************************************************)
EXTENDS Integers, Sequences, FiniteSets, TLC

(***************************************************************************)
(* CONFIG (src/config.ts), durations in seconds.                           *)
(***************************************************************************)
FOLLOWS_PER_MINUTE == 20
MAX_FOLLOWERS == 1000
MIN_DELAY_BETWEEN_FOLLOWS == 3
MAX_DAYS_INACTIVE == 30
MIN_REPOS == 3
MIN_EVENTS == 5
CHECK_INTERVAL == 2
MIN_STARS == 1
MIN_FOLLOWERS == 1
MAX_PAGES == 10
PER_PAGE == 100
PAGINATION_DELAY == 2
RANDOM_DELAY_MIN == 2
RANDOM_DELAY_MAX == 4
MAX_CONSECUTIVE_ACTIONS == 50
COOL_DOWN_PERIOD == 15 * 60
MAX_CONSECUTIVE_ERRORS == 3
ERROR_THRESHOLD == 5
PAUSE_DURATION == 15 * 60
\* the literal 60000 of waitForRateLimit
WINDOW == 60
\* the default of parseInt(headers.get('retry-after') || '60')
DEFAULT_RETRY_AFTER == 60

(***************************************************************************)
(* Bounds of the model.                                                    *)
(***************************************************************************)
\* the clock reading when the module is loaded (Date.now() is far from 0)
Epoch == 100
\* how long after Epoch the limiter is watched
Horizon == 100
\* by how much a sleep may overrun the requested duration
MaxLag == 1
\* the longest short idle time between two calls
MaxIdle == 3

\* the longest event list and repository list the upstream returns
MaxEvents == 5
MaxRepos == 3
\* how far the clock may advance between two classifications
MaxTick == 2

\* the size of a page shorter than PER_PAGE
ShortPage == 1
\* the retry-after header of a throttled response that carries one
RetryAfterHeader == 5

\* the most followers the API lists in the specification of a whole batch
MaxCandidates == 3
\* the largest page and limit query values a request carries
MaxQuery == 2

\* the number of followers the API lists in the specification of one window
ScenarioWindow == 5

\* the most invocations of the handler in one process, and the most calls
\* of handleError when it is called alone
MaxRequests == 7

\* the invocations of the handler in flight at once in one process
NumInvocations == 2
\* the seconds followed in the specification of concurrent invocations
RaceHorizon == 30

\* the candidates of a window longer than MAX_CONSECUTIVE_ACTIONS
StreakWindow == 54
\* how many candidates at the start of that window may be inactive
StreakSkips == 2

MaxTime == Epoch + Horizon
\* the idle times between two calls: short ones, half a window, a window
IdleChoices == (0..MaxIdle) \cup {WINDOW \div 2, WINDOW}

VARIABLES
    now,            \* Date.now()
    rateLimiter,    \* the module-level RateLimiter instance
    lastAdmit,      \* history: the last completed waitForRateLimit call
    obs,            \* history: an observer counting admissions in one 60 s interval
    flows,          \* where each concurrent invocation is in waitForRateLimit
    upstream,       \* what the API answers for one candidate: responses and bodies
    verdicts,       \* history: the results of the isActiveUser calls so far
    srcPc,          \* getAllFollowers: "idle", "loop" or "returned"
    page,           \* getAllFollowers: page
    allFollowers,   \* getAllFollowers: allFollowers
    consecutiveErrors, \* getAllFollowers: consecutiveErrors
    returned,       \* the value getAllFollowers returned
    slept,          \* history: the duration slept during the last step
    served,         \* history: the pages the API served with a success status
    lastRes,        \* history: the last answer to a page request, and what it found
    pc,             \* handler: "idle", "fetch", "process" or "done"
    batch,          \* handler: its local variables
    response,       \* handler: the response sent
    trail,          \* history: what each iteration of the handler's loop did
    handled         \* history: the calls of handleError, and the sleep of the last

limiterVars == <<now, rateLimiter, lastAdmit, obs, flows>>
classifierVars == <<upstream, verdicts>>
sourceVars == <<srcPc, page, allFollowers, consecutiveErrors, returned, slept, served,
                lastRes>>
handlerVars == <<pc, batch, response, trail, handled>>
vars == <<now, rateLimiter, lastAdmit, obs, flows, upstream, verdicts,
          srcPc, page, allFollowers, consecutiveErrors, returned, slept, served,
          lastRes, pc, batch, response, trail, handled>>

(***************************************************************************)
(* class RateLimiter                                                       *)
(***************************************************************************)
\* the categories of errorCounts: the handler calls handleError with
\* 'follow'; "fetch" stands for any other string a caller may pass
ErrorTypes == {"follow", "fetch"}

\* the field initialisers; t is Date.now() at construction; a type missing
\* from the errorCounts map counts 0
NewRateLimiter(t) ==
    [followsInLastMinute |-> 0, lastFollowTime |-> 0, lastResetTime |-> t,
     errorCounts |-> [type \in ErrorTypes |-> 0]]

\* now - this.lastResetTime >= 60000
WindowExpired(rl, t) == t - rl.lastResetTime >= WINDOW

\* a variant of WindowFull with the comparison off by one (> for >=)
WindowFullStrict(rl) == rl.followsInLastMinute > FOLLOWS_PER_MINUTE

\* this.followsInLastMinute >= CONFIG.RATE_LIMITS.FOLLOWS_PER_MINUTE
WindowFull(rl) == rl.followsInLastMinute >= FOLLOWS_PER_MINUTE

\* a variant of WindowWait that does not sleep
WindowWaitNone(rl, t) == 0

\* const waitTime = 60000 - (now - this.lastResetTime)
WindowWait(rl, t) == WINDOW - (t - rl.lastResetTime)

\* a variant of SpacingWait that never sleeps
SpacingWaitNone(rl, t) == 0

\* a variant of SpacingWait that sleeps one second too little
SpacingWaitShort(rl, t) ==
    LET timeSinceLastFollow == t - rl.lastFollowTime
    IN  IF timeSinceLastFollow < MIN_DELAY_BETWEEN_FOLLOWS - 1
        THEN MIN_DELAY_BETWEEN_FOLLOWS - 1 - timeSinceLastFollow
        ELSE 0

\* the duration of the spacing sleep, 0 when the code does not sleep;
\* t is the `now` read at the top of the call, before any sleep
SpacingWait(rl, t) ==
    LET timeSinceLastFollow == t - rl.lastFollowTime
    IN  IF timeSinceLastFollow < MIN_DELAY_BETWEEN_FOLLOWS
        THEN MIN_DELAY_BETWEEN_FOLLOWS - timeSinceLastFollow
        ELSE 0

\* sleep(ms) started at clock value t: the timer fires after at least ms
Sleep(t, ms, lag) == t + (IF ms > 0 THEN ms ELSE 0) + lag

\* waitForRateLimit() called at clock value t by a single flow of control.
\* lagW and lagS are the overruns of the two sleeps.  The result holds the
\* limiter after the call, the clock at its end, and what the call did.
waitForRateLimit(rl, t, lagW, lagS) ==
    LET r1 == IF WindowExpired(rl, t)
              THEN [rl EXCEPT !.followsInLastMinute = 0, !.lastResetTime = t]
              ELSE rl
        full == WindowFull(r1)
        t1 == IF full THEN Sleep(t, WindowWait(r1, t), lagW) ELSE t
        r2 == IF full
              THEN [r1 EXCEPT !.followsInLastMinute = 0, !.lastResetTime = t1]
              ELSE r1
        spacing == SpacingWait(r2, t)
        t2 == IF spacing > 0 THEN Sleep(t1, spacing, lagS) ELSE t1
    IN  [rl |-> [r2 EXCEPT !.followsInLastMinute = r2.followsInLastMinute + 1,
                           !.lastFollowTime = t2],
         now |-> t2,
         calledAt |-> t,
         spacingAt |-> t1,
         waitedWindow |-> full,
         windowWait |-> IF full THEN WindowWait(r1, t) ELSE 0,
         spacingWait |-> spacing]

\* waitForRateLimit() as several invocations of the handler run it on the
\* one module-level limiter.  An invocation runs alone from one await to the
\* next; while it sleeps, the others run.  Each keeps its own `now` (line 77)
\* and is woken when its timer fires.
Invocations == 1..NumInvocations

Out == [pc |-> "out", now |-> 0, wake |-> 0]

NoFlows == [p \in Invocations |-> Out]

\* lines 94-100, reached at clock value t by an invocation whose `now` is
\* myNow: it goes to sleep, or it counts the follow
SpacingStep(rl, myNow, t) ==
    LET spacing == SpacingWait(rl, myNow)
    IN  IF spacing > 0
        THEN [rl |-> rl,
              flow |-> [pc |-> "spacingSleep", now |-> myNow, wake |-> t + spacing]]
        ELSE [rl |-> [rl EXCEPT !.followsInLastMinute = rl.followsInLastMinute + 1,
                                !.lastFollowTime = t],
              flow |-> Out]

\* lines 77-97 up to the first await, the call made at clock value t
EnterStep(rl, t) ==
    LET r1 == IF WindowExpired(rl, t)
              THEN [rl EXCEPT !.followsInLastMinute = 0, !.lastResetTime = t]
              ELSE rl
    IN  IF WindowFull(r1)
        THEN [rl |-> r1,
              flow |-> [pc |-> "windowSleep", now |-> t,
                        wake |-> t + WindowWait(r1, t)]]
        ELSE SpacingStep(r1, t, t)

\* no timer of a sleeping invocation is due before clock value t
NoTimerDue(t) ==
    \A q \in Invocations : flows[q].pc # "out" => t <= flows[q].wake

\* invocation p calls waitForRateLimit, `idle` after the last step
Enter(p, idle) ==
    /\ flows[p].pc = "out"
    /\ now + idle <= Epoch + RaceHorizon
    /\ NoTimerDue(now + idle)
    /\ LET step == EnterStep(rateLimiter, now + idle)
       IN  /\ rateLimiter' = step.rl
           /\ flows' = [flows EXCEPT ![p] = step.flow]
    /\ now' = now + idle

\* the window sleep of invocation p is over: lines 89-97
WakeWindow(p) ==
    /\ flows[p].pc = "windowSleep"
    /\ NoTimerDue(flows[p].wake)
    /\ LET t == flows[p].wake
           r2 == [rateLimiter EXCEPT !.followsInLastMinute = 0, !.lastResetTime = t]
           step == SpacingStep(r2, flows[p].now, t)
       IN  /\ rateLimiter' = step.rl
           /\ flows' = [flows EXCEPT ![p] = step.flow]
           /\ now' = t

\* the spacing sleep of invocation p is over: lines 99-100
WakeSpacing(p) ==
    /\ flows[p].pc = "spacingSleep"
    /\ NoTimerDue(flows[p].wake)
    /\ rateLimiter' =
          [rateLimiter EXCEPT
              !.followsInLastMinute = rateLimiter.followsInLastMinute + 1,
              !.lastFollowTime = flows[p].wake]
    /\ flows' = [flows EXCEPT ![p] = Out]
    /\ now' = flows[p].wake

\* Math.min(PAUSE_DURATION * count, PAUSE_DURATION * 5)
ErrorPause(count) ==
    IF PAUSE_DURATION * count < PAUSE_DURATION * 5
    THEN PAUSE_DURATION * count ELSE PAUSE_DURATION * 5

\* a variant of handleError that leaves the count as it is after the pause
handleErrorNoReset(rl, t, type) ==
    LET count == rl.errorCounts[type] + 1
        pause == count >= MAX_CONSECUTIVE_ERRORS
    IN  [rl |-> [rl EXCEPT !.errorCounts[type] = count],
         now |-> IF pause THEN Sleep(t, ErrorPause(count), 0) ELSE t,
         slept |-> IF pause THEN ErrorPause(count) ELSE 0]

\* handleError(type, error) called at clock value t: the limiter after the
\* call, the clock at its end and the duration slept
handleError(rl, t, type) ==
    LET count == rl.errorCounts[type] + 1
        pause == count >= MAX_CONSECUTIVE_ERRORS
    IN  [rl |-> [rl EXCEPT !.errorCounts[type] = IF pause THEN 0 ELSE count],
         now |-> IF pause THEN Sleep(t, ErrorPause(count), 0) ELSE t,
         slept |-> IF pause THEN ErrorPause(count) ELSE 0]

\* resetErrors(type)
resetErrors(rl, type) == [rl EXCEPT !.errorCounts[type] = 0]

(***************************************************************************)
(* History variables of the limiter.                                       *)
(***************************************************************************)
NoAdmit == [n |-> 0, prevFollowTime |-> 0, waitedWindow |-> FALSE,
            calledAt |-> 0, spacingAt |-> 0, windowWait |-> 0, spacingWait |-> 0]

\* n counts the calls so far, up to 2 ("two or more"); prevFollowTime is
\* lastFollowTime as the call found it; calledAt and spacingAt are the clock
\* when the call was made and when its spacing check ran; windowWait and
\* spacingWait are the durations it asked the two sleeps for, all four kept
\* only when `detail` is set
RecordAdmit(rl, res, detail) ==
    [n |-> IF lastAdmit.n < 2 THEN lastAdmit.n + 1 ELSE 2,
     prevFollowTime |-> rl.lastFollowTime,
     waitedWindow |-> res.waitedWindow,
     calledAt |-> IF detail THEN res.calledAt ELSE 0,
     spacingAt |-> IF detail THEN res.spacingAt ELSE 0,
     windowWait |-> IF detail THEN res.windowWait ELSE 0,
     spacingWait |-> IF detail THEN res.spacingWait ELSE 0]

NoObs == [on |-> FALSE, start |-> 0, count |-> 0]

\* The observer picks one admission as the start of a 60 s interval
\* [start, start + 60) and counts the admissions that fall into it.
Observe(t, watch) ==
    IF obs.on /\ t < obs.start + WINDOW
    THEN [obs EXCEPT !.count = obs.count + 1]
    ELSE IF watch THEN [on |-> TRUE, start |-> t, count |-> 1]
    ELSE NoObs

(***************************************************************************)
(* isActiveUser                                                            *)
(***************************************************************************)
\* (1000 * 60 * 60 * 24) ms, in seconds
SECONDS_PER_DAY == 60 * 60 * 24

\* A response is "ok" (2xx), "throttled" (403 with a retry-after header of
\* RetryAfterHeader seconds), "notok" (any other status) or "reject" (the
\* fetch promise rejects).  A timestamp is a number of seconds; 0 stands for
\* a null or absent timestamp, which the code's truthiness test drops.
Outcomes == {"ok", "throttled", "notok", "reject"}

\* one of the three fetches is answered 403 with a retry-after header
SomeThrottled(resp) ==
    resp.user = "throttled" \/ resp.events = "throttled" \/ resp.repos = "throttled"

\* await Promise.all([...]) rejects when one of the fetches rejects
PromiseAllRejects(resp) ==
    resp.user = "reject" \/ resp.events = "reject" \/ resp.repos = "reject"

\* !user.ok || !events.ok || !repos.ok
SomeNotOk(resp) ==
    resp.user # "ok" \/ resp.events # "ok" \/ resp.repos # "ok"

\* reposData.some(repo => repo.stargazers_count >= MIN_STARS)
hasEnoughStars(reposData) ==
    \E i \in 1..Len(reposData) : reposData[i].stargazers_count >= MIN_STARS

\* [...eventsData.map(...), ...reposData.map(...)]
activityItems(eventsData, reposData) ==
    [i \in 1..Len(eventsData) |->
        [created_at |-> eventsData[i].created_at, pushed_at |-> 0, updated_at |-> 0]]
    \o
    [i \in 1..Len(reposData) |->
        [created_at |-> reposData[i].created_at,
         pushed_at |-> reposData[i].pushed_at,
         updated_at |-> reposData[i].updated_at]]

\* dates.reduce((max, date) => date > max ? date : max, latest)
RECURSIVE ReduceMax(_, _)
ReduceMax(dates, latest) ==
    IF dates = <<>> THEN latest
    ELSE ReduceMax(Tail(dates),
                   IF Head(dates) > latest THEN Head(dates) ELSE latest)

\* [new Date(created_at), pushed_at ? new Date(pushed_at) : null,
\*  updated_at ? new Date(updated_at) : null].filter(date => date !== null)
ItemDates(item) ==
    <<item.created_at>>
    \o (IF item.pushed_at # 0 THEN <<item.pushed_at>> ELSE <<>>)
    \o (IF item.updated_at # 0 THEN <<item.updated_at>> ELSE <<>>)

\* activityItems.reduce((latest, item) => ..., new Date(0))
RECURSIVE latestActivity(_, _)
latestActivity(items, latest) ==
    IF items = <<>> THEN latest
    ELSE latestActivity(Tail(items), ReduceMax(ItemDates(Head(items)), latest))

\* a variant of StillActive with <= for <
StillActiveInclusive(t, latest) ==
    t - latest <= MAX_DAYS_INACTIVE * SECONDS_PER_DAY

\* a variant of StillActive with the comparison inverted
StillActiveInverted(t, latest) ==
    t - latest > MAX_DAYS_INACTIVE * SECONDS_PER_DAY

\* daysSinceActive = (Date.now() - latestActivity.getTime()) / (1000*60*60*24);
\* daysSinceActive < MAX_DAYS_INACTIVE.  The division is exact (a float), so
\* the comparison is that of the two sides multiplied by the length of a day.
StillActive(t, latest) ==
    t - latest < MAX_DAYS_INACTIVE * SECONDS_PER_DAY

\* the body of the try block: what it returns, or that it throws
TryBody(up, t) ==
    IF PromiseAllRejects(up.resp) \/ SomeNotOk(up.resp)
    THEN [kind |-> "throw", value |-> FALSE]
    ELSE IF \/ up.userData.followers < MIN_FOLLOWERS
            \/ up.userData.public_repos < MIN_REPOS
    THEN [kind |-> "return", value |-> FALSE]
    ELSE IF Len(up.reposData) < MIN_REPOS
    THEN [kind |-> "return", value |-> FALSE]
    ELSE IF ~hasEnoughStars(up.reposData)
    THEN [kind |-> "return", value |-> FALSE]
    ELSE IF Len(up.eventsData) < MIN_EVENTS
    THEN [kind |-> "return", value |-> FALSE]
    ELSE [kind |-> "return",
          value |-> StillActive(t,
                       latestActivity(activityItems(up.eventsData, up.reposData), 0))]

\* a variant of CatchBlock that lets the error escape
CatchRethrow(body) ==
    [kind |-> body.kind, value |-> body.value, logged |-> FALSE]

\* catch (error) { console.error(...); return false; }
CatchBlock(body) ==
    IF body.kind = "throw"
    THEN [kind |-> "return", value |-> FALSE, logged |-> TRUE]
    ELSE [kind |-> "return", value |-> body.value, logged |-> FALSE]

\* isActiveUser(username) called at clock value t, the API answering `up`
isActiveUser(up, t) == CatchBlock(TryBody(up, t))

(***************************************************************************)
(* getAllFollowers                                                         *)
(***************************************************************************)
\* a variant of Slice that takes the element at `end` too
SliceInclusive(s, start, end) ==
    LET len == Len(s)
        from == IF start < len THEN start ELSE len
        to == IF end + 1 < len THEN end + 1 ELSE len
    IN  IF 0 <= from /\ from < to THEN SubSeq(s, from + 1, to) ELSE <<>>

\* Array.prototype.slice(start, end), negative indices counted from the end
Slice(s, start, end) ==
    LET len == Len(s)
        from == IF start < 0
                THEN (IF len + start > 0 THEN len + start ELSE 0)
                ELSE (IF start < len THEN start ELSE len)
        to == IF end < 0
              THEN (IF len + end > 0 THEN len + end ELSE 0)
              ELSE (IF end < len THEN end ELSE len)
    IN  IF from < to THEN SubSeq(s, from + 1, to) ELSE <<>>

\* the body of a successful answer to followers?page=p: n followers, each
\* named by the page and the place it was served at
PageBody(p, n) == [i \in 1..n |-> p * MAX_FOLLOWERS + i]

\* a page larger than per_page (an upstream that ignores the parameter)
OversizePage == 5 * PER_PAGE + 1

\* What the API may answer to one page request: a success with a body of
\* `size` followers, a 403 with or without a retry-after header, or a failure
\* (another non-success status, a rejected fetch, a body that does not parse).
PageResponses(sizes) ==
    { [kind |-> "ok", size |-> n, retryAfter |-> 0] : n \in sizes }
    \cup { [kind |-> "throttled", size |-> 0, retryAfter |-> r] :
              r \in {0, RetryAfterHeader} }
    \cup { [kind |-> "failed", size |-> 0, retryAfter |-> 0] }

\* a variant of retryAfter that ignores the header
retryAfterIgnored(header) == DEFAULT_RETRY_AFTER

\* parseInt(res.headers.get('retry-after') || '60'); 0 stands for no header
retryAfter(header) == IF header = 0 THEN DEFAULT_RETRY_AFTER ELSE header

\* a variant of ErrorsReachMax that pauses one failure late
ErrorsReachMaxLate(errors) == errors > MAX_CONSECUTIVE_ERRORS

\* consecutiveErrors >= CONFIG.ERROR_HANDLING.MAX_CONSECUTIVE_ERRORS
ErrorsReachMax(errors) == errors >= MAX_CONSECUTIVE_ERRORS

\* a variant of LoopContinues that stops one page early
LoopContinuesShort(p, followers) ==
    p < MAX_PAGES /\ Len(followers) < MAX_FOLLOWERS

\* page <= MAX_PAGES && allFollowers.length < MAX_FOLLOWERS
LoopContinues(p, followers) ==
    p <= MAX_PAGES /\ Len(followers) < MAX_FOLLOWERS

NoRes == [kind |-> "none", size |-> 0, retryAfter |-> 0, page |-> 0,
          errorsBefore |-> 0, collectedBefore |-> 0]

SourceIdle ==
    /\ srcPc = "idle"
    /\ lastRes = NoRes
    /\ page = 1
    /\ allFollowers = <<>>
    /\ consecutiveErrors = 0
    /\ returned = <<>>
    /\ slept = 0
    /\ served = <<>>

\* the call: allFollowers = [], page = 1, consecutiveErrors = 0
CallGetAllFollowers ==
    /\ srcPc = "idle"
    /\ srcPc' = "loop"
    /\ page' = 1
    /\ allFollowers' = <<>>
    /\ consecutiveErrors' = 0
    /\ slept' = 0
    /\ UNCHANGED <<returned, served, lastRes>>

\* one iteration of the while loop, the API answering `res`
FetchPage(res) ==
    /\ srcPc = "loop"
    /\ LoopContinues(page, allFollowers)
    /\ lastRes' = [kind |-> res.kind, size |-> res.size,
                   retryAfter |-> res.retryAfter, page |-> page,
                   errorsBefore |-> consecutiveErrors,
                   collectedBefore |-> Len(allFollowers)]
    /\ CASE res.kind = "throttled" ->
              \* sleep(retryAfter * 1000); continue
              /\ slept' = retryAfter(res.retryAfter)
              /\ UNCHANGED <<srcPc, page, allFollowers, consecutiveErrors, returned, served>>
         [] res.kind = "failed" ->
              \* the catch block
              /\ consecutiveErrors' =
                    IF ErrorsReachMax(consecutiveErrors + 1)
                    THEN 0 ELSE consecutiveErrors + 1
              /\ slept' = IF ErrorsReachMax(consecutiveErrors + 1)
                          THEN PAUSE_DURATION ELSE 0
              /\ UNCHANGED <<srcPc, page, allFollowers, returned, served>>
         [] res.kind = "ok" /\ res.size = 0 ->
              \* if (!followers.length) break, then the return
              /\ srcPc' = "returned"
              /\ returned' = Slice(allFollowers, 0, MAX_FOLLOWERS)
              /\ served' = Append(served, [page |-> page, size |-> 0])
              /\ slept' = 0
              /\ UNCHANGED <<page, allFollowers, consecutiveErrors>>
         [] res.kind = "ok" /\ res.size > 0 ->
              /\ allFollowers' = allFollowers \o PageBody(page, res.size)
              /\ consecutiveErrors' = 0
              /\ slept' = PAGINATION_DELAY
              /\ page' = page + 1
              /\ served' = Append(served, [page |-> page, size |-> res.size])
              /\ UNCHANGED <<srcPc, returned>>

\* the loop condition fails: return allFollowers.slice(0, MAX_FOLLOWERS)
ReturnFollowers ==
    /\ srcPc = "loop"
    /\ ~LoopContinues(page, allFollowers)
    /\ srcPc' = "returned"
    /\ returned' = Slice(allFollowers, 0, MAX_FOLLOWERS)
    /\ slept' = 0
    /\ UNCHANGED <<page, allFollowers, consecutiveErrors, served, lastRes>>

(***************************************************************************)
(* The handler's state before a request.                                  *)
(***************************************************************************)
NoBatch ==
    [page |-> 0, limit |-> 0, startTime |-> 0, allFollowers |-> <<>>,
     paginatedFollowers |-> <<>>, i |-> 1,
     activeUsers |-> <<>>, processedUsers |-> <<>>,
     errorCount |-> 0, rateLimitHits |-> 0, consecutiveActions |-> 0]

NoResponse == [status |-> 0]

\* calls counts the calls of handleError, type and slept are the category
\* and the sleep of the last one; requests counts the handler's invocations
\* that have answered, streak the failed ones since the last answer 200;
\* cooldowns lists the durations of the sleeps of handleError so far
NoneHandled ==
    [calls |-> 0, slept |-> 0, type |-> "", requests |-> 0, streak |-> 0,
     cooldowns |-> <<>>]

\* the sleeps of handleError so far, with one of duration d added if d > 0
WithCooldown(d) ==
    IF d > 0 THEN Append(handled.cooldowns, d) ELSE handled.cooldowns

HandlerIdle ==
    /\ pc = "idle"
    /\ batch = NoBatch
    /\ response = NoResponse
    /\ trail = <<>>
    /\ handled = NoneHandled

(***************************************************************************)
(* The classifier alone: one candidate, classified up to twice while the   *)
(* upstream data stay the same and the clock advances.                     *)
(***************************************************************************)
\* the clock of this specification starts 40 days after time 0
ClockStart == 40 * SECONDS_PER_DAY
\* a timestamp 31 days before ClockStart
StampOld == ClockStart - 31 * SECONDS_PER_DAY
\* a timestamp one second less than MAX_DAYS_INACTIVE days before ClockStart
StampEdge == ClockStart - MAX_DAYS_INACTIVE * SECONDS_PER_DAY + 1

Profiles ==
    [followers : (MIN_FOLLOWERS - 1)..MIN_FOLLOWERS,
     public_repos : (MIN_REPOS - 1)..MIN_REPOS]

EventChoices == [created_at : {StampOld, StampEdge}]

RepoChoices ==
    { [stargazers_count |-> MIN_STARS - 1, created_at |-> StampOld,
       pushed_at |-> 0, updated_at |-> StampOld],
      [stargazers_count |-> MIN_STARS, created_at |-> StampOld,
       pushed_at |-> StampOld, updated_at |-> StampOld],
      [stargazers_count |-> MIN_STARS - 1, created_at |-> StampOld,
       pushed_at |-> StampEdge, updated_at |-> StampOld] }

SeqsUpTo(S, n) == UNION { [1..k -> S] : k \in 0..n }

NoBody == [followers |-> 0, public_repos |-> 0]

NoUpstream ==
    [resp |-> [user |-> "ok", events |-> "ok", repos |-> "ok"],
     userData |-> NoBody, eventsData |-> <<>>, reposData |-> <<>>]

\* what the API may answer: three successful fetches with their bodies, or
\* at least one failed fetch (whose body the code never reads)
Upstreams ==
    { [resp |-> [user |-> "ok", events |-> "ok", repos |-> "ok"],
       userData |-> u, eventsData |-> e, reposData |-> r] :
          u \in Profiles,
          e \in SeqsUpTo(EventChoices, MaxEvents),
          r \in SeqsUpTo(RepoChoices, MaxRepos) }
    \cup
    { [NoUpstream EXCEPT !.resp = rs] :
          rs \in { x \in [user : Outcomes, events : Outcomes, repos : Outcomes] :
                      SomeNotOk(x) } }

InitClassifier ==
    /\ now = ClockStart
    /\ rateLimiter = NewRateLimiter(ClockStart)
    /\ lastAdmit = NoAdmit
    /\ obs = NoObs
    /\ flows = NoFlows
    /\ upstream \in Upstreams
    /\ verdicts = <<>>
    /\ SourceIdle
    /\ HandlerIdle

\* one call of isActiveUser; the history keeps when it ran and its result
Classify ==
    /\ Len(verdicts) < 2
    /\ verdicts' = Append(verdicts, [at |-> now, result |-> isActiveUser(upstream, now)])
    /\ UNCHANGED <<limiterVars, upstream, sourceVars, handlerVars>>

\* time passes between the two classifications
Tick(d) ==
    /\ Len(verdicts) = 1
    /\ now < ClockStart + MaxTick
    /\ now' = now + d
    /\ UNCHANGED <<rateLimiter, lastAdmit, obs, flows, upstream, verdicts, sourceVars, handlerVars>>

NextClassifier ==
    \/ Classify
    \/ \E d \in 1..MaxTick : Tick(d)

SpecClassifier == InitClassifier /\ [][NextClassifier]_vars

(***************************************************************************)
(* handler                                                                 *)
(***************************************************************************)
\* A query value as parseInt reads it: NaN (absent or not a number) or n.
NaN == [nan |-> TRUE, n |-> 0]
Num(k) == [nan |-> FALSE, n |-> k]

\* parseInt(x) || d: NaN and 0 are falsy
OrDefault(v, d) == IF v.nan \/ v.n = 0 THEN d ELSE v.n

\* Math.ceil(a / b) for b # 0
Ceil(a, b) == IF b > 0 THEN -((-a) \div b) ELSE -(a \div (-b))

\* 200 <= status < 300
Ok(status) == status >= 200 /\ status < 300

\* a variant of ErrorsReachThreshold that never pauses
ErrorsNeverReachThreshold(errorCount) == FALSE

\* errorCount >= CONFIG.ERROR_HANDLING.ERROR_THRESHOLD
ErrorsReachThreshold(errorCount) == errorCount >= ERROR_THRESHOLD

\* a variant of ShouldFollow that follows every candidate
ShouldFollowAlways(result) == TRUE

\* if (await isActiveUser(follower.login))
ShouldFollow(result) == result.value

\* the answer to the PUT: the fetch rejects, or a status with or without a
\* retry-after header (0: none)
PutResponses ==
    { [rejects |-> TRUE, status |-> 0, retryAfter |-> 0] }
    \cup { [rejects |-> FALSE, status |-> st, retryAfter |-> 0] :
              st \in {204, 200, 403, 500} }
    \cup { [rejects |-> FALSE, status |-> 403, retryAfter |-> RetryAfterHeader] }

\* getRandomDelay(): Math.floor(Math.random() * (MAX - MIN) + MIN)
RandomDelays == RANDOM_DELAY_MIN..(RANDOM_DELAY_MAX - 1)

\* a timestamp one day before ClockStart
StampRecent == ClockStart - SECONDS_PER_DAY

\* the answers of the API about a candidate with enough followers, repos,
\* stars and events whose latest activity is at `st`
CandidateBody(st) ==
    LET repo == [stargazers_count |-> MIN_STARS, created_at |-> StampOld,
                 pushed_at |-> st, updated_at |-> StampOld]
    IN  [resp |-> [user |-> "ok", events |-> "ok", repos |-> "ok"],
         userData |-> [followers |-> MIN_FOLLOWERS, public_repos |-> MIN_REPOS],
         eventsData |-> [i \in 1..MIN_EVENTS |-> [created_at |-> st]],
         reposData |-> [i \in 1..MIN_REPOS |-> repo]]

ActiveCandidate == CandidateBody(StampRecent)
InactiveCandidate == CandidateBody(StampOld)
\* the events fetch is answered with a non-success status
FailingCandidate == [NoUpstream EXCEPT !.resp.events = "notok"]

\* the user fetch is answered 403 with a retry-after header
ThrottledCandidate == [NoUpstream EXCEPT !.resp.user = "throttled"]

\* the answers the API gives about a candidate in the specification of a
\* whole batch: an active one, an inactive one, one whose events fetch fails,
\* one whose user fetch is throttled
BatchUpstreams ==
    {ActiveCandidate, InactiveCandidate, FailingCandidate, ThrottledCandidate}

\* The handler is called: the method check, the query parameters, and the
\* call of getAllFollowers.
Request(method, configured, qPage, qLimit) ==
    /\ pc = "idle"
    /\ CASE method # "GET" ->
              /\ pc' = "done"
              /\ response' = [status |-> 405]
              /\ UNCHANGED <<now, rateLimiter, batch, sourceVars, handled>>
         [] method = "GET" /\ ~configured ->
              \* throw new Error(...), caught at the end of the handler
              LET h == handleError(rateLimiter, now, "follow")
              IN  /\ rateLimiter' = h.rl
                  /\ now' = h.now
                  /\ handled' = [handled EXCEPT !.calls = handled.calls + 1,
                                                !.slept = h.slept,
                                                !.type = "follow",
                                                !.cooldowns = WithCooldown(h.slept),
                                                !.streak = handled.streak + 1]
                  /\ pc' = "done"
                  /\ response' = [status |-> 500]
                  /\ UNCHANGED <<batch, sourceVars>>
         [] method = "GET" /\ configured ->
              /\ pc' = "fetch"
              /\ batch' = [NoBatch EXCEPT !.page = OrDefault(qPage, 1),
                                          !.limit = OrDefault(qLimit, 5),
                                          !.startTime = now]
              /\ CallGetAllFollowers
              /\ UNCHANGED <<now, rateLimiter, response, handled>>
    /\ UNCHANGED <<lastAdmit, obs, flows, classifierVars, trail>>

\* The handler has answered and is called again, `idle` later, in the same
\* process: the module-level rateLimiter is kept.
NextRequest(idle) ==
    /\ pc = "done"
    /\ handled.requests < MaxRequests
    /\ handled' = [handled EXCEPT !.requests = handled.requests + 1]
    /\ pc' = "idle"
    /\ batch' = NoBatch
    /\ response' = NoResponse
    /\ trail' = <<>>
    /\ now' = now + idle
    /\ UNCHANGED <<rateLimiter, lastAdmit, obs, flows, classifierVars, sourceVars>>

\* one iteration of getAllFollowers' loop while the handler awaits it
AwaitFollowers(res) ==
    /\ pc = "fetch"
    /\ FetchPage(res)
    /\ now' = now + slept'
    /\ UNCHANGED <<rateLimiter, lastAdmit, obs, flows, classifierVars, handlerVars>>

\* getAllFollowers has returned: the slice for the requested page
SliceFollowers ==
    /\ pc = "fetch"
    /\ srcPc = "returned"
    /\ LET startIndex == (batch.page - 1) * batch.limit
           endIndex == startIndex + batch.limit
       IN  batch' = [batch EXCEPT
                        !.allFollowers = returned,
                        !.paginatedFollowers = Slice(returned, startIndex, endIndex)]
    /\ pc' = "process"
    /\ srcPc' = "idle"
    /\ UNCHANGED <<limiterVars, classifierVars, page, allFollowers,
                   consecutiveErrors, returned, slept, served, lastRes,
                   response, trail, handled>>

\* a variant of NeedsCoolDown that cools down one action late
NeedsCoolDownLate(actions) == actions > MAX_CONSECUTIVE_ACTIONS

\* consecutiveActions >= CONFIG.ANTI_DETECTION.MAX_CONSECUTIVE_ACTIONS
NeedsCoolDown(actions) == actions >= MAX_CONSECUTIVE_ACTIONS

\* One iteration of the for loop, for candidate paginatedFollowers[i]: the
\* API answers `up` to the classification fetches and `put` to the follow
\* request, and getRandomDelay() yields `jitter`.
ProcessFollower(up, put, jitter) ==
    /\ pc = "process"
    /\ batch.i <= Len(batch.paginatedFollowers)
    /\ LET login == batch.paginatedFollowers[batch.i]
           processed == Append(batch.processedUsers, login)
           cool == NeedsCoolDown(batch.consecutiveActions)
           t0 == IF cool THEN Sleep(now, COOL_DOWN_PERIOD, 0) ELSE now
           actions0 == IF cool THEN 0 ELSE batch.consecutiveActions
           result == isActiveUser(up, t0)
           follow == result.kind = "return" /\ ShouldFollow(result)
           adm == waitForRateLimit(rateLimiter, t0, 0, 0)
           t1 == IF follow THEN adm.now ELSE t0
           \* the try block throws: isActiveUser raised, the PUT was rejected
           \* or answered another non-success status
           threw == \/ result.kind = "throw"
                    \/ follow /\ (put.rejects
                                   \/ (put.status # 204 /\ put.status # 403
                                        /\ ~Ok(put.status)))
           followed == follow /\ ~put.rejects /\ put.status = 204
           throttled == follow /\ ~put.rejects /\ put.status = 403
           t2 == IF throttled THEN Sleep(t1, retryAfter(put.retryAfter), 0) ELSE t1
           t3 == IF follow /\ ~threw THEN Sleep(t2, jitter, 0) ELSE t2
           t4 == IF ~threw THEN Sleep(t3, CHECK_INTERVAL, 0) ELSE t3
           errors1 == IF threw THEN batch.errorCount + 1 ELSE batch.errorCount
           pause == threw /\ ErrorsReachThreshold(errors1)
           t5 == IF pause THEN Sleep(t4, PAUSE_DURATION, 0) ELSE t4
       IN  /\ batch' = [batch EXCEPT
                  !.i = batch.i + 1,
                  !.processedUsers = processed,
                  !.activeUsers = IF followed THEN Append(batch.activeUsers, login)
                                  ELSE batch.activeUsers,
                  !.consecutiveActions = IF followed THEN actions0 + 1 ELSE actions0,
                  !.rateLimitHits = IF throttled THEN batch.rateLimitHits + 1
                                    ELSE batch.rateLimitHits,
                  !.errorCount = IF pause THEN 0 ELSE errors1]
           /\ rateLimiter' = IF follow THEN adm.rl ELSE rateLimiter
           /\ now' = t5
           /\ trail' = Append(trail,
                  [login |-> login,
                   fetchFailed |-> SomeNotOk(up.resp) \/ PromiseAllRejects(up.resp),
                   classifyThrottled |-> SomeThrottled(up.resp),
                   result |-> result,
                   putIssued |-> follow,
                   put |-> IF follow THEN put
                           ELSE [rejects |-> FALSE, status |-> 0, retryAfter |-> 0],
                   threw |-> threw,
                   errorCounted |-> threw,
                   errorCount |-> IF pause THEN 0 ELSE errors1,
                   cooledDown |-> cool,
                   actionsBefore |-> batch.consecutiveActions,
                   consecutiveActions |-> IF followed THEN actions0 + 1 ELSE actions0,
                   followed |-> followed,
                   rateLimitHit |-> throttled,
                   retryWait |-> IF throttled THEN retryAfter(put.retryAfter) ELSE 0,
                   jitter |-> IF follow /\ ~threw THEN jitter ELSE 0,
                   interval |-> IF ~threw THEN CHECK_INTERVAL ELSE 0,
                   paused |-> pause])
    /\ UNCHANGED <<lastAdmit, obs, flows, classifierVars, sourceVars, pc, response, handled>>

\* the loop is over: res.status(200).json(response)
Respond ==
    /\ pc = "process"
    /\ batch.i > Len(batch.paginatedFollowers)
    /\ pc' = "done"
    /\ response' =
          [status |-> 200,
           followed |-> batch.activeUsers,
           processed |-> batch.processedUsers,
           total_processed |-> Len(batch.processedUsers),
           rate_limit_hits |-> batch.rateLimitHits,
           errors |-> batch.errorCount,
           consecutive_actions |-> batch.consecutiveActions,
           monitoring |-> [processing_time |-> now - batch.startTime],
           pagination |-> [current_page |-> batch.page,
                           total_pages |-> Ceil(Len(batch.allFollowers), batch.limit),
                           total_followers |-> Len(batch.allFollowers),
                           limit |-> batch.limit]]
    /\ handled' = [handled EXCEPT !.streak = 0]
    /\ UNCHANGED <<limiterVars, classifierVars, sourceVars, batch, trail>>

(***************************************************************************)
(* One invocation of the handler in a freshly loaded module, against an    *)
(* API that lists at most MaxCandidates followers and serves every         *)
(* followers page.                                                         *)
(***************************************************************************)
QueryValues == {NaN} \cup { Num(k) : k \in (-MaxQuery)..MaxQuery }

Init ==
    /\ now = ClockStart
    /\ rateLimiter = NewRateLimiter(ClockStart)
    /\ lastAdmit = NoAdmit
    /\ obs = NoObs
    /\ flows = NoFlows
    /\ upstream = NoUpstream
    /\ verdicts = <<>>
    /\ SourceIdle
    /\ HandlerIdle

\* the pages the API may serve: no more followers than MaxCandidates in all,
\* so that the loop of getAllFollowers always ends at an empty page
BatchPages ==
    { r \in PageResponses(0..MaxCandidates) :
        r.kind = "ok" /\ Len(allFollowers) + r.size <= MaxCandidates }

Next ==
    \/ \E method \in {"GET", "POST"}, configured \in BOOLEAN,
          qPage \in QueryValues, qLimit \in QueryValues :
          Request(method, configured, qPage, qLimit)
    \/ \E res \in BatchPages : AwaitFollowers(res)
    \/ SliceFollowers
    \/ \E up \in BatchUpstreams, put \in PutResponses, jitter \in RandomDelays :
          ProcessFollower(up, put, jitter)
    \/ Respond

Spec == Init /\ [][Next]_vars

(***************************************************************************)
(* One invocation of the handler for a window of ScenarioWindow candidates, *)
(* each active or inactive, each PUT answered 204, 403 with a retry-after  *)
(* header or 500.                                                          *)
(***************************************************************************)
WindowPages ==
    { r \in PageResponses({0, ScenarioWindow}) :
        r.kind = "ok" /\ Len(allFollowers) + r.size <= ScenarioWindow }

WindowPuts ==
    { r \in PutResponses :
        \/ r.status \in {204, 500}
        \/ r.status = 403 /\ r.retryAfter = RetryAfterHeader }

NextWindow ==
    \/ Request("GET", TRUE, Num(1), Num(ScenarioWindow))
    \/ \E res \in WindowPages : AwaitFollowers(res)
    \/ SliceFollowers
    \/ \E up \in {ActiveCandidate, InactiveCandidate}, put \in WindowPuts :
          ProcessFollower(up, put, RANDOM_DELAY_MIN)
    \/ Respond

SpecWindow == Init /\ [][NextWindow]_vars

(***************************************************************************)
(* One invocation of the handler for a window of StreakWindow candidates,  *)
(* more than MAX_CONSECUTIVE_ACTIONS: the followers fill one page of the   *)
(* API, the first StreakSkips candidates are active or inactive, the       *)
(* others active, and every PUT is answered 204.                           *)
(***************************************************************************)
StreakPages ==
    { r \in PageResponses({0, PER_PAGE}) :
        r.kind = "ok" /\ Len(allFollowers) + r.size <= PER_PAGE }

StreakUpstreams ==
    IF batch.i <= StreakSkips THEN {ActiveCandidate, InactiveCandidate}
    ELSE {ActiveCandidate}

StreakPuts == { r \in PutResponses : r.status = 204 }

NextStreak ==
    \/ Request("GET", TRUE, Num(1), Num(StreakWindow))
    \/ \E res \in StreakPages : AwaitFollowers(res)
    \/ SliceFollowers
    \/ \E up \in StreakUpstreams, put \in StreakPuts :
          ProcessFollower(up, put, RANDOM_DELAY_MIN)
    \/ Respond

SpecStreak == Init /\ [][NextStreak]_vars

(***************************************************************************)
(* A process whose CONFIG lacks the token or the target user, called again *)
(* and again.                                                              *)
(***************************************************************************)
NextMisconfigured ==
    \/ \E qPage \in QueryValues, qLimit \in QueryValues :
          Request("GET", FALSE, qPage, qLimit)
    \/ \E idle \in 0..MaxIdle : NextRequest(idle)

SpecMisconfigured == Init /\ [][NextMisconfigured]_vars

(***************************************************************************)
(* A process called again and again, CONFIG complete at some calls and not *)
(* at others, the target user having no follower: a call with CONFIG       *)
(* complete is answered 200.                                               *)
(***************************************************************************)
NoFollowers ==
    { r \in PageResponses({0}) : r.kind = "ok" }

NextRequests ==
    \/ \E configured \in BOOLEAN : Request("GET", configured, NaN, NaN)
    \/ \E res \in NoFollowers : AwaitFollowers(res)
    \/ SliceFollowers
    \/ Respond
    \/ \E idle \in 0..MaxLag : NextRequest(idle)

SpecRequests == Init /\ [][NextRequests]_vars

(***************************************************************************)
(* handleError and resetErrors alone: one flow of control calling them     *)
(* with any category at arbitrary times.                                   *)
(***************************************************************************)
CallHandleError(type, idle) ==
    /\ handled.calls < MaxRequests
    /\ LET h == handleError(rateLimiter, now + idle, type)
       IN  /\ rateLimiter' = h.rl
           /\ now' = h.now
           /\ handled' = [handled EXCEPT !.calls = handled.calls + 1,
                                         !.slept = h.slept,
                                         !.type = type,
                                         !.cooldowns = WithCooldown(h.slept)]
    /\ UNCHANGED <<lastAdmit, obs, flows, classifierVars, sourceVars,
                   pc, batch, response, trail>>

CallResetErrors(type) ==
    /\ rateLimiter' = resetErrors(rateLimiter, type)
    /\ UNCHANGED <<now, lastAdmit, obs, flows, classifierVars, sourceVars, handlerVars>>

NextErrors ==
    \/ \E type \in ErrorTypes, idle \in 0..MaxLag : CallHandleError(type, idle)
    \/ \E type \in ErrorTypes : CallResetErrors(type)

SpecErrors == Init /\ [][NextErrors]_vars

(***************************************************************************)
(* getAllFollowers alone, against an API that answers each page request    *)
(* with a page of any of these sizes, a throttle or a failure.  The clock  *)
(* is not followed here: `slept` records each suspension.                  *)
(***************************************************************************)
SourcePageSizes == {0, ShortPage, PER_PAGE, OversizePage}

InitSource ==
    /\ now = Epoch
    /\ rateLimiter = NewRateLimiter(Epoch)
    /\ lastAdmit = NoAdmit
    /\ obs = NoObs
    /\ flows = NoFlows
    /\ upstream = NoUpstream
    /\ verdicts = <<>>
    /\ SourceIdle
    /\ HandlerIdle

NextSource ==
    \/ CallGetAllFollowers /\ UNCHANGED <<limiterVars, classifierVars, handlerVars>>
    \/ \E res \in PageResponses(SourcePageSizes) :
          FetchPage(res) /\ UNCHANGED <<limiterVars, classifierVars, handlerVars>>
    \/ ReturnFollowers /\ UNCHANGED <<limiterVars, classifierVars, handlerVars>>

SpecSource == InitSource /\ [][NextSource]_vars

\* The same, the event loop running every iteration of the loop: a pending
\* fetch settles and a timer fires, whatever the API answers.
SpecSourceFair == SpecSource /\ WF_vars(NextSource)

(***************************************************************************)
(* The limiter alone: one flow of control calling waitForRateLimit at      *)
(* arbitrary times.                                                        *)
(***************************************************************************)
InitLimiter ==
    /\ now = Epoch
    /\ rateLimiter = NewRateLimiter(Epoch)
    /\ lastAdmit = NoAdmit
    /\ obs = NoObs
    /\ flows = NoFlows
    /\ upstream = NoUpstream
    /\ verdicts = <<>>
    /\ SourceIdle
    /\ HandlerIdle

\* One call of waitForRateLimit, made `idle` seconds after the previous call
\* returned (or after the module was loaded).
Admit(idle, watch, detail) ==
    /\ \E lagW \in (IF WindowFull(rateLimiter) THEN 0..MaxLag ELSE {0}),
          lagS \in (IF SpacingWait(rateLimiter, now + idle) > 0 THEN 0..MaxLag ELSE {0}) :
          LET res == waitForRateLimit(rateLimiter, now + idle, lagW, lagS)
          IN  /\ res.now <= MaxTime
              /\ rateLimiter' = res.rl
              /\ now' = res.now
              /\ lastAdmit' = RecordAdmit(rateLimiter, res, detail)
              /\ obs' = Observe(res.now, watch)
              /\ UNCHANGED <<flows, classifierVars, sourceVars, handlerVars>>

NextLimiter ==
    \E idle \in IdleChoices : Admit(idle, FALSE, TRUE)

SpecLimiter == InitLimiter /\ [][NextLimiter]_vars

\* Several invocations of the handler at once, each calling waitForRateLimit
\* at arbitrary times.
NextConcurrent ==
    \/ \E p \in Invocations, idle \in {0, MIN_DELAY_BETWEEN_FOLLOWS} :
          Enter(p, idle) /\ UNCHANGED <<lastAdmit, obs, classifierVars, sourceVars, handlerVars>>
    \/ \E p \in Invocations :
          WakeWindow(p) /\ UNCHANGED <<lastAdmit, obs, classifierVars, sourceVars, handlerVars>>
    \/ \E p \in Invocations :
          WakeSpacing(p) /\ UNCHANGED <<lastAdmit, obs, classifierVars, sourceVars, handlerVars>>

SpecConcurrent == InitLimiter /\ [][NextConcurrent]_vars

\* the same calls, with the observer free to start at any admission
NextRolling ==
    \E idle \in IdleChoices, watch \in BOOLEAN : Admit(idle, watch, FALSE)

SpecRolling == InitLimiter /\ [][NextRolling]_vars

(***************************************************************************)
(* Properties of the handler.                                              *)
(***************************************************************************)
Steps == 1..Len(trail)

\* every element of seq `a` is an element of seq `b`
SubList(a, b) == \A i \in 1..Len(a) : \E j \in 1..Len(b) : b[j] = a[i]

Answered == pc = "done" /\ response.status = 200

\* C1: for any integer page and limit of the request, the followed list of
\* the response is a sub-list of its processed list, and the processed list
\* is no longer than the limit.
C1_ProcessedWithinLimit ==
    Answered =>
        /\ SubList(response.followed, response.processed)
        /\ Len(response.followed) <= Len(response.processed)
        /\ Len(response.processed) <= response.pagination.limit

\* the part of C1 that the code keeps for every request: followed is a
\* sub-list of processed, and processed is within the limit when the limit
\* is positive
C1_PositiveLimit ==
    Answered =>
        /\ SubList(response.followed, response.processed)
        /\ Len(response.followed) <= Len(response.processed)
        /\ response.pagination.limit > 0 =>
              Len(response.processed) <= response.pagination.limit

\* a request with a negative limit answered with a processed list that is
\* not empty
C1_NegativeLimit ==
    /\ Answered
    /\ response.pagination.limit < 0
    /\ Len(response.processed) > 0

\* C5: the PUT is issued for a candidate only after isActiveUser returned
\* true for it in the same iteration; none is issued for a candidate found
\* ineligible, a failed classification fetch included.
C5_FollowOnlyEligible ==
    \A i \in Steps :
        /\ trail[i].putIssued =>
              trail[i].result.kind = "return" /\ trail[i].result.value = TRUE
        /\ trail[i].fetchFailed => ~trail[i].putIssued
        /\ ~trail[i].putIssued => trail[i].put.status = 0
        /\ Answered =>
              \A j \in 1..Len(response.followed) :
                  \E k \in Steps : /\ trail[k].putIssued
                                   /\ trail[k].login = response.followed[j]

\* a batch that followed one candidate, skipped an inactive one and skipped
\* one whose classification fetch failed
C5_Witness ==
    /\ Answered
    /\ \E i, j, k \in Steps :
          /\ trail[i].putIssued /\ trail[i].put.status = 204
          /\ ~trail[j].putIssued /\ ~trail[j].fetchFailed
          /\ ~trail[k].putIssued /\ trail[k].fetchFailed

\* C13: in a window of 5 candidates, 2 of them eligible, one PUT throttled
\* once with retry-after 5 s and the other answered 204, the throttled PUT is
\* sent again after the wait: the response has 2 followed, 5 processed and
\* rate_limit_hits = 1.
C13_ThrottledActionFollowed ==
    LET eligible == { i \in Steps : trail[i].putIssued }
        throttled == { i \in eligible : /\ trail[i].put.status = 403
                                         /\ trail[i].put.retryAfter = RetryAfterHeader }
        immediate == { i \in eligible : trail[i].put.status = 204 }
    IN  /\ Answered
        /\ Len(trail) = ScenarioWindow
        /\ Cardinality(eligible) = 2
        /\ Cardinality(throttled) = 1
        /\ Cardinality(immediate) = 1
        => /\ Len(response.followed) = 2
           /\ Len(response.processed) = ScenarioWindow
           /\ response.rate_limit_hits = 1

\* the batch of C13 as the code runs it: the throttled candidate is not
\* followed, after a wait of the advertised 5 s
C13_ThrottledNotFollowed ==
    /\ Answered
    /\ Len(response.processed) = ScenarioWindow
    /\ Len(response.followed) = 1
    /\ response.rate_limit_hits = 1
    /\ Cardinality({ i \in Steps : trail[i].putIssued }) = 2
    /\ \E i \in Steps : /\ trail[i].put.status = 403
                        /\ trail[i].retryWait = RetryAfterHeader
                        /\ trail[i].login \notin
                              { response.followed[j] : j \in 1..Len(response.followed) }

C14_ThirdErrorPaused ==
    /\ pc = "done"
    /\ response.status = 500
    /\ handled.calls = MAX_CONSECUTIVE_ERRORS
    /\ handled.slept = MAX_CONSECUTIVE_ERRORS * PAUSE_DURATION
    /\ rateLimiter.errorCounts["follow"] = 0

\* C15: every rate-limit response (403 with retry-after), to a
\* classification fetch or to the PUT, is followed by a sleep of the
\* advertised duration in that iteration and is not counted as an error.
C15_ThrottleHonoured ==
    \A i \in Steps :
        /\ trail[i].classifyThrottled =>
              trail[i].retryWait = RetryAfterHeader /\ ~trail[i].errorCounted
        /\ trail[i].put.status = 403 =>
              /\ trail[i].retryWait = IF trail[i].put.retryAfter = 0
                                      THEN DEFAULT_RETRY_AFTER
                                      ELSE trail[i].put.retryAfter
              /\ ~trail[i].errorCounted

\* a throttled classification fetch after which the iteration slept only
\* the check interval and the candidate was skipped
C15_ClassifyThrottleIgnored ==
    \E i \in Steps :
        /\ trail[i].classifyThrottled
        /\ trail[i].retryWait = 0
        /\ trail[i].interval = CHECK_INTERVAL
        /\ ~trail[i].putIssued
        /\ trail[i].result = [kind |-> "return", value |-> FALSE, logged |-> TRUE]

\* the part of C15 about the PUT: a 403 is followed by a sleep of the
\* advertised duration, counted in rateLimitHits and not as an error
C15_PutThrottleHonoured ==
    /\ \A i \in Steps :
          trail[i].put.status = 403 =>
              /\ trail[i].retryWait = IF trail[i].put.retryAfter = 0
                                      THEN DEFAULT_RETRY_AFTER
                                      ELSE trail[i].put.retryAfter
              /\ ~trail[i].errorCounted
    /\ Answered =>
          response.rate_limit_hits =
              Cardinality({ i \in Steps : trail[i].put.status = 403 })

\* C16: a failure thrown while a candidate is processed does not end the
\* batch: errorCount goes up by one, at ERROR_THRESHOLD the batch pauses and
\* errorCount is back to 0, and the loop goes on, so processed lists every
\* candidate of the window once, in the order of the window.
C16_FailureNeverAborts ==
    /\ \A i \in Steps :
          LET before == IF i = 1 THEN 0 ELSE trail[i - 1].errorCount
          IN  /\ trail[i].login = batch.paginatedFollowers[i]
              /\ trail[i].threw /\ before + 1 >= ERROR_THRESHOLD =>
                    trail[i].paused /\ trail[i].errorCount = 0
              /\ trail[i].threw /\ before + 1 < ERROR_THRESHOLD =>
                    ~trail[i].paused /\ trail[i].errorCount = before + 1
              /\ ~trail[i].threw =>
                    ~trail[i].paused /\ trail[i].errorCount = before
    /\ pc \in {"process", "done"} =>
          /\ batch.errorCount < ERROR_THRESHOLD
          /\ batch.processedUsers =
                SubSeq(batch.paginatedFollowers, 1, batch.i - 1)
    /\ Answered => /\ response.processed = batch.paginatedFollowers
                   /\ Len(trail) = Len(batch.paginatedFollowers)

\* a batch whose every PUT failed: it paused at the ERROR_THRESHOLD-th
\* failure and still processed the whole window
C16_Witness ==
    /\ Answered
    /\ Len(response.processed) = ScenarioWindow
    /\ \A i \in Steps : trail[i].threw
    /\ trail[ERROR_THRESHOLD].paused
    /\ \A i \in 1..(ERROR_THRESHOLD - 1) : trail[i].errorCount = i

\* C8 as stated: a failed classification fetch shows in the error count of
\* the batch.
C8_FailureCounted ==
    \A i \in Steps : trail[i].fetchFailed => trail[i].errorCounted

\* C8: a failed classification fetch is logged and gives the handler the
\* value false, the same value as for an inactive candidate; the iteration
\* raises nothing and leaves the error count alone, which counts only the
\* iterations whose PUT failed.
C8_FailureNotCounted ==
    /\ \A i \in Steps :
          /\ trail[i].fetchFailed =>
                /\ trail[i].result = [kind |-> "return", value |-> FALSE,
                                      logged |-> TRUE]
                /\ ~trail[i].threw
                /\ ~trail[i].errorCounted
          /\ trail[i].errorCounted => trail[i].putIssued
    /\ Answered /\ Len(trail) < ERROR_THRESHOLD =>
          response.errors = Cardinality({ i \in Steps : trail[i].errorCounted })

\* a batch in which a classification fetch failed, answered with errors = 0
C8_Witness ==
    /\ Answered
    /\ \E i \in Steps : trail[i].fetchFailed
    /\ response.errors = 0

\* C22: the sleep of handleError grows with the count, up to five times
\* PAUSE_DURATION: it lasts min(count x PAUSE_DURATION, 5 x PAUSE_DURATION),
\* and the sleeps of one flow of control differ in duration until the cap is
\* reached.
C22_CooldownsScale ==
    /\ \A i \in 1..Len(handled.cooldowns) :
          \E count \in 1..MaxRequests : handled.cooldowns[i] = ErrorPause(count)
    /\ \A i, j \in 1..Len(handled.cooldowns) :
          i < j /\ handled.cooldowns[i] < 5 * PAUSE_DURATION =>
              handled.cooldowns[i] # handled.cooldowns[j]

\* what the code does: the count is MAX_CONSECUTIVE_ERRORS at every sleep,
\* so every sleep lasts MAX_CONSECUTIVE_ERRORS x PAUSE_DURATION
C22_CooldownsConstant ==
    \A i \in 1..Len(handled.cooldowns) :
        /\ handled.cooldowns[i] = ErrorPause(MAX_CONSECUTIVE_ERRORS)
        /\ handled.cooldowns[i] = MAX_CONSECUTIVE_ERRORS * PAUSE_DURATION

\* two sleeps of the same category, of the same duration
C22_SameDurationTwice ==
    /\ Len(handled.cooldowns) = 2
    /\ handled.cooldowns[1] = handled.cooldowns[2]
    /\ handled.calls = 2 * MAX_CONSECUTIVE_ERRORS

C23_CooldownAfterSuccess ==
    /\ pc = "done"
    /\ response.status = 500
    /\ handled.slept > 0
    /\ handled.streak = 1
    /\ handled.calls = MAX_CONSECUTIVE_ERRORS
    /\ handled.requests = MAX_CONSECUTIVE_ERRORS

\* an invocation answered 200 that leaves the count of 'follow' as it was
C23_SuccessKeepsCount ==
    /\ pc = "done"
    /\ response.status = 200
    /\ handled.streak = 0
    /\ rateLimiter.errorCounts["follow"] = MAX_CONSECUTIVE_ERRORS - 1

(***************************************************************************)
(* Properties of the limiter.                                              *)
(***************************************************************************)
\* C2: in a single flow of control, after every waitForRateLimit call has
\* recorded its action the window counter followsInLastMinute is at most
\* C17: the limiter belongs to one invocation at a time: no two
\* invocations are inside waitForRateLimit on the same limiter at once.
C17_NoOverlap ==
    Cardinality({ p \in Invocations : flows[p].pc # "out" }) <= 1

\* C18: under every interleaving of concurrent invocations the window
\* counter is at most the cap when a follow is admitted.
C18_CapUnderInterleaving ==
    rateLimiter.followsInLastMinute <= FOLLOWS_PER_MINUTE

\* two invocations passed the window check on the same count and both
\* counted their follow
C18_CapExceeded ==
    /\ rateLimiter.followsInLastMinute = FOLLOWS_PER_MINUTE + 1
    /\ \A p \in Invocations : flows[p].pc = "out"

\* C19: every call of waitForRateLimit makes the window check first and the
\* spacing check second and only then counts the follow and sets
\* lastFollowTime.  When it finds the counter at the cap it asks for a sleep
\* of exactly the rest of the window, a duration in (0, WINDOW], and then
\* sets the counter to 0 and lastResetTime to the clock at that moment.
C19_WindowThenSpacing ==
    [][ LET call == lastAdmit'
            t == call.calledAt
            expired == t - rateLimiter.lastResetTime >= WINDOW
            count0 == IF expired THEN 0 ELSE rateLimiter.followsInLastMinute
            reset0 == IF expired THEN t ELSE rateLimiter.lastResetTime
        IN  /\ t <= call.spacingAt /\ call.spacingAt <= now'
            /\ count0 >= FOLLOWS_PER_MINUTE =>
                  /\ call.waitedWindow
                  /\ call.windowWait = WINDOW - (t - reset0)
                  /\ call.windowWait > 0 /\ call.windowWait <= WINDOW
                  /\ call.spacingAt >= t + call.windowWait
                  /\ rateLimiter'.lastResetTime = call.spacingAt
                  /\ rateLimiter'.followsInLastMinute = 1
            /\ count0 < FOLLOWS_PER_MINUTE =>
                  /\ ~call.waitedWindow
                  /\ call.windowWait = 0
                  /\ call.spacingAt = t
                  /\ rateLimiter'.lastResetTime = reset0
                  /\ rateLimiter'.followsInLastMinute = count0 + 1
            /\ now' >= call.spacingAt + call.spacingWait
            /\ rateLimiter'.lastFollowTime = now'
      ]_vars

\* a call that found the counter at the cap MIN_DELAY_BETWEEN_FOLLOWS before
\* the end of the window: it slept that long and started a new window with
\* its own follow
C19_Witness ==
    /\ lastAdmit.waitedWindow
    /\ lastAdmit.windowWait = MIN_DELAY_BETWEEN_FOLLOWS
    /\ rateLimiter.followsInLastMinute = 1
    /\ rateLimiter.lastResetTime = lastAdmit.spacingAt

\* C20: the spacing check sleeps only if the time since the last follow,
\* taken when the spacing check runs, is less than the minimum delay, and
\* then for just the difference; a call that has waited for the window
\* sleeps no longer than needed to reach the minimum delay.
C20_SpacingExact ==
    lastAdmit.n > 0 =>
        LET elapsed == lastAdmit.spacingAt - lastAdmit.prevFollowTime
        IN  lastAdmit.spacingWait =
                IF elapsed < MIN_DELAY_BETWEEN_FOLLOWS
                THEN MIN_DELAY_BETWEEN_FOLLOWS - elapsed ELSE 0

\* a call that waited for the window, found the last follow already
\* MIN_DELAY_BETWEEN_FOLLOWS or more back, and slept for the spacing all the
\* same
C20_StaleSpacing ==
    /\ lastAdmit.waitedWindow
    /\ lastAdmit.spacingAt - lastAdmit.prevFollowTime >= MIN_DELAY_BETWEEN_FOLLOWS
    /\ lastAdmit.spacingWait > 0

\* the part of C20 that holds: a call that did not wait for the window
\* sleeps just the difference
C20_SpacingExactNoWindowWait ==
    lastAdmit.n > 0 /\ ~lastAdmit.waitedWindow =>
        LET elapsed == lastAdmit.spacingAt - lastAdmit.prevFollowTime
        IN  lastAdmit.spacingWait =
                IF elapsed < MIN_DELAY_BETWEEN_FOLLOWS
                THEN MIN_DELAY_BETWEEN_FOLLOWS - elapsed ELSE 0

(***************************************************************************)
(* Properties of handleError.                                              *)
(***************************************************************************)
\* C21: a call of handleError changes the count of its category only; a
\* count that reaches MAX_CONSECUTIVE_ERRORS makes the call sleep and leave
\* the count at zero, so after every call every count is below the threshold.
C21_OwnCategoryOnly ==
    [][ handled'.calls = handled.calls + 1 =>
          LET type == handled'.type
              count == rateLimiter.errorCounts[type] + 1
          IN  /\ \A other \in ErrorTypes \ {type} :
                    rateLimiter'.errorCounts[other] = rateLimiter.errorCounts[other]
              /\ count < MAX_CONSECUTIVE_ERRORS =>
                    /\ rateLimiter'.errorCounts[type] = count
                    /\ handled'.slept = 0
                    /\ now' >= now
              /\ count >= MAX_CONSECUTIVE_ERRORS =>
                    /\ rateLimiter'.errorCounts[type] = 0
                    /\ handled'.slept > 0
                    /\ now' >= now + handled'.slept
              /\ \A any \in ErrorTypes :
                    rateLimiter'.errorCounts[any] < MAX_CONSECUTIVE_ERRORS
      ]_vars

\* the call that brought "fetch" to the threshold slept and left it at zero,
\* while "follow" stays at two
C21_Witness ==
    /\ handled.type = "fetch"
    /\ handled.slept > 0
    /\ rateLimiter.errorCounts["fetch"] = 0
    /\ rateLimiter.errorCounts["follow"] = MAX_CONSECUTIVE_ERRORS - 1

\* FOLLOWS_PER_MINUTE.
C2_CounterWithinCap ==
    lastAdmit.n > 0 => rateLimiter.followsInLastMinute <= FOLLOWS_PER_MINUTE

\* the cap is reached: the window holds FOLLOWS_PER_MINUTE recorded actions
C2_Witness ==
    /\ lastAdmit.n = 2
    /\ rateLimiter.followsInLastMinute = FOLLOWS_PER_MINUTE

\* C3: no more than FOLLOWS_PER_MINUTE actions are admitted in any interval
\* [s, s + 60 s) that starts at an admission, wherever the limiter's own
\* window resets fall.
C3_RollingWindow == obs.count <= FOLLOWS_PER_MINUTE

\* an observed interval that holds FOLLOWS_PER_MINUTE admissions and
\* straddles a reset of the limiter's window
C3_Witness ==
    /\ obs.on
    /\ obs.count = FOLLOWS_PER_MINUTE
    /\ rateLimiter.lastResetTime > obs.start

\* C4: the times at which two consecutive calls record their action
\* (lastFollowTime) are at least MIN_DELAY_BETWEEN_FOLLOWS apart.
C4_Spacing ==
    lastAdmit.n = 2 =>
        rateLimiter.lastFollowTime - lastAdmit.prevFollowTime
            >= MIN_DELAY_BETWEEN_FOLLOWS

\* a second call that waited for the window and then recorded its action
C4_Witness ==
    /\ lastAdmit.n = 2
    /\ lastAdmit.waitedWindow
    /\ rateLimiter.lastFollowTime > lastAdmit.prevFollowTime

(***************************************************************************)
(* Properties of isActiveUser.                                             *)
(***************************************************************************)
AllOk(resp) == resp.user = "ok" /\ resp.events = "ok" /\ resp.repos = "ok"

\* every timestamp the bodies hold: event created_at, repository
\* created_at / pushed_at / updated_at (absent ones left out)
Stamps(up) ==
    { up.eventsData[i].created_at : i \in 1..Len(up.eventsData) }
    \cup UNION { { up.reposData[i].created_at, up.reposData[i].pushed_at,
                   up.reposData[i].updated_at } \ {0} :
                 i \in 1..Len(up.reposData) }

MostRecent(S) == CHOOSE x \in S : \A y \in S : y <= x

\* the five criteria, stated on the bodies as a whole
FiveCriteria(up, t) ==
    /\ up.userData.followers >= MIN_FOLLOWERS
    /\ up.userData.public_repos >= MIN_REPOS
    /\ Len(up.reposData) >= MIN_REPOS
    /\ \E i \in 1..Len(up.reposData) : up.reposData[i].stargazers_count >= MIN_STARS
    /\ Len(up.eventsData) >= MIN_EVENTS
    /\ Stamps(up) # {}
    /\ t - MostRecent(Stamps(up)) < MAX_DAYS_INACTIVE * SECONDS_PER_DAY

\* C6: when the three fetches succeed, isActiveUser returns true exactly
\* when the five criteria hold, the last one being that the most recent of
\* all timestamps is strictly less than MAX_DAYS_INACTIVE days old.
C6_ExactlyFiveCriteria ==
    AllOk(upstream.resp) =>
        \A i \in 1..Len(verdicts) :
            /\ verdicts[i].result.kind = "return"
            /\ verdicts[i].result.value = FiveCriteria(upstream, verdicts[i].at)

\* a candidate one second inside the boundary is classified eligible, and
\* the same candidate exactly MAX_DAYS_INACTIVE days old is not
C6_Witness ==
    /\ AllOk(upstream.resp)
    /\ Len(verdicts) = 2
    /\ verdicts[1].result.value
    /\ verdicts[1].at - MostRecent(Stamps(upstream))
          = MAX_DAYS_INACTIVE * SECONDS_PER_DAY - 1
    /\ ~verdicts[2].result.value
    /\ verdicts[2].at - MostRecent(Stamps(upstream))
          = MAX_DAYS_INACTIVE * SECONDS_PER_DAY

\* C7: if any of the three fetches rejects or answers a non-success status,
\* isActiveUser returns false and raises nothing.
C7_FailClosed ==
    ~AllOk(upstream.resp) =>
        \A i \in 1..Len(verdicts) :
            /\ verdicts[i].result.kind = "return"
            /\ verdicts[i].result.value = FALSE

\* a classification in which only the events fetch failed, caught and logged
C7_Witness ==
    /\ Len(verdicts) >= 1
    /\ upstream.resp = [user |-> "ok", events |-> "notok", repos |-> "ok"]
    /\ verdicts[1].result.logged
    /\ verdicts[1].result.value = FALSE

\* C9 as stated: two classifications of the same candidate with identical
\* upstream data yield the same verdict, whenever they happen.
C9_SameVerdictAnyTime ==
    Len(verdicts) = 2 => verdicts[1].result.value = verdicts[2].result.value

\* C9 amended: with identical upstream data the verdict depends on the clock
\* alone: two classifications at the same clock value agree, and a later
\* classification is eligible only if the earlier one was.
C9_SameVerdictSameClock ==
    Len(verdicts) = 2 =>
        /\ verdicts[1].at = verdicts[2].at =>
              verdicts[1].result = verdicts[2].result
        /\ verdicts[2].result.value => verdicts[1].result.value

\* the same data classified eligible first and ineligible later
C9_Witness ==
    /\ Len(verdicts) = 2
    /\ verdicts[1].at < verdicts[2].at
    /\ verdicts[1].result.value
    /\ ~verdicts[2].result.value

(***************************************************************************)
(* Properties of getAllFollowers.                                          *)
(***************************************************************************)
\* the bodies of pages 1..k of the log, one after the other
RECURSIVE BodiesUpTo(_, _)
BodiesUpTo(log, k) ==
    IF k = 0 THEN <<>>
    ELSE BodiesUpTo(log, k - 1) \o PageBody(k, log[k].size)

\* the number of followers in pages 1..k of the log
RECURSIVE TotalUpTo(_, _)
TotalUpTo(log, k) ==
    IF k = 0 THEN 0 ELSE TotalUpTo(log, k - 1) + log[k].size

FirstN(seq, n) == SubSeq(seq, 1, IF Len(seq) < n THEN Len(seq) ELSE n)

NonEmptyServed == Cardinality({ i \in 1..Len(served) : served[i].size > 0 })

\* C10: getAllFollowers returns the bodies of the successfully served
\* non-empty pages 1, 2, ..., k in page order, none skipped or repeated, where
\* k is the first page at which an empty page follows, MAX_PAGES pages are
\* appended or MAX_FOLLOWERS followers are collected; the result is cut to
\* MAX_FOLLOWERS.
C10_PagesInOrder ==
    srcPc = "returned" =>
        LET k == NonEmptyServed
        IN  /\ \A i \in 1..Len(served) : served[i].page = i
            /\ \A i \in 1..Len(served) : served[i].size = 0 => i = Len(served)
            /\ Len(served) <= k + 1
            /\ returned = FirstN(BodiesUpTo(served, k), MAX_FOLLOWERS)
            /\ \/ Len(served) = k + 1
               \/ k = MAX_PAGES
               \/ TotalUpTo(served, k) >= MAX_FOLLOWERS
            /\ \A j \in 0..(k - 1) :
                  j < MAX_PAGES /\ TotalUpTo(served, j) < MAX_FOLLOWERS

\* pages of sizes [100, 100, 0]: the call returns after the empty page with
\* exactly 200 followers
C10_Witness ==
    /\ srcPc = "returned"
    /\ Len(served) = 3
    /\ served[1].size = PER_PAGE /\ served[2].size = PER_PAGE /\ served[3].size = 0
    /\ Len(returned) = 2 * PER_PAGE

C12_FetchReturns == (srcPc = "loop") ~> (srcPc = "returned")

\* C24: a failed page request adds one to consecutiveErrors; at
\* MAX_CONSECUTIVE_ERRORS getAllFollowers sleeps PAUSE_DURATION and sets the
\* count to zero, and in both cases asks for the same page next.  A page
\* with followers sets the count to zero, is followed by the inter-page
\* delay and adds one to page.  The count is below the threshold whenever a
\* page is requested.
C24_ErrorsBelowMax ==
    /\ consecutiveErrors < MAX_CONSECUTIVE_ERRORS
    /\ lastRes.errorsBefore < MAX_CONSECUTIVE_ERRORS
    /\ srcPc = "loop" /\ lastRes.kind = "failed" =>
          /\ page = lastRes.page
          /\ Len(allFollowers) = lastRes.collectedBefore
          /\ lastRes.errorsBefore + 1 < MAX_CONSECUTIVE_ERRORS =>
                consecutiveErrors = lastRes.errorsBefore + 1 /\ slept = 0
          /\ lastRes.errorsBefore + 1 >= MAX_CONSECUTIVE_ERRORS =>
                consecutiveErrors = 0 /\ slept = PAUSE_DURATION
    /\ srcPc = "loop" /\ lastRes.kind = "ok" /\ lastRes.size > 0 =>
          /\ consecutiveErrors = 0
          /\ slept = PAGINATION_DELAY
          /\ page = lastRes.page + 1
          /\ Len(allFollowers) = lastRes.collectedBefore + lastRes.size

\* the third failure in a row of the request for page 2: a pause, the count
\* back to zero, page 2 still to be asked for
C24_Witness ==
    /\ srcPc = "loop"
    /\ lastRes.kind = "failed"
    /\ lastRes.errorsBefore = MAX_CONSECUTIVE_ERRORS - 1
    /\ consecutiveErrors = 0
    /\ slept = PAUSE_DURATION
    /\ page = 2

\* C25: within a batch consecutiveActions never exceeds
\* MAX_CONSECUTIVE_ACTIONS: an iteration that finds it at the maximum sleeps
\* COOL_DOWN_PERIOD and sets it to zero before anything else, so a PUT is
\* only issued with the counter below the maximum, and a 204 adds one.
C25_ActionsWithinMax ==
    /\ batch.consecutiveActions <= MAX_CONSECUTIVE_ACTIONS
    /\ \A i \in Steps :
          LET before == IF i = 1 THEN 0 ELSE trail[i - 1].consecutiveActions
              atAction == IF trail[i].cooledDown THEN 0 ELSE before
          IN  /\ trail[i].actionsBefore = before
              /\ trail[i].cooledDown <=> before >= MAX_CONSECUTIVE_ACTIONS
              /\ trail[i].putIssued => atAction < MAX_CONSECUTIVE_ACTIONS
              /\ trail[i].consecutiveActions =
                    atAction + (IF trail[i].followed THEN 1 ELSE 0)
              /\ trail[i].consecutiveActions <= MAX_CONSECUTIVE_ACTIONS
    /\ Answered => response.consecutive_actions = batch.consecutiveActions

\* MAX_CONSECUTIVE_ACTIONS follows, then a cooldown before the next follow,
\* which leaves the counter at one
C25_Witness ==
    \E i \in Steps :
        /\ trail[i].cooledDown
        /\ trail[i].actionsBefore = MAX_CONSECUTIVE_ACTIONS
        /\ trail[i].followed
        /\ trail[i].consecutiveActions = 1
        /\ Cardinality({ j \in 1..(i - 1) : trail[j].followed }) =
              MAX_CONSECUTIVE_ACTIONS

\* the PUT of step i was answered (the fetch did not reject)
PutAnswered(i) == trail[i].putIssued /\ ~trail[i].put.rejects

\* C26 as stated: every response to the PUT is a success (followed, one more
\* consecutive action), a 403 (one more rate limit hit, a sleep of the
\* retry-after, 60 s without the header) or an error of the candidate; none
\* leaves followed, rate_limit_hits and the error counter all unchanged.
C26_ThreeOutcomes ==
    \A i \in Steps :
        PutAnswered(i) =>
            /\ Ok(trail[i].put.status) =>
                  /\ trail[i].followed
                  /\ trail[i].consecutiveActions =
                        (IF trail[i].cooledDown THEN 0 ELSE trail[i].actionsBefore) + 1
            /\ trail[i].put.status = 403 =>
                  /\ trail[i].rateLimitHit
                  /\ trail[i].retryWait = retryAfter(trail[i].put.retryAfter)
            /\ ~Ok(trail[i].put.status) /\ trail[i].put.status # 403 =>
                  trail[i].errorCounted
            /\ trail[i].followed \/ trail[i].rateLimitHit \/ trail[i].errorCounted

\* what the code does with the statuses it tests for: 204, 403, and the
\* statuses outside 200..299
C26_TestedStatuses ==
    \A i \in Steps :
        PutAnswered(i) =>
            /\ trail[i].followed <=> trail[i].put.status = 204
            /\ trail[i].rateLimitHit <=> trail[i].put.status = 403
            /\ trail[i].rateLimitHit =>
                  trail[i].retryWait = retryAfter(trail[i].put.retryAfter)
            /\ trail[i].errorCounted <=>
                  (~Ok(trail[i].put.status) /\ trail[i].put.status # 403)
            /\ ~(trail[i].followed /\ trail[i].rateLimitHit)
            /\ ~(trail[i].followed /\ trail[i].errorCounted)
            /\ ~(trail[i].rateLimitHit /\ trail[i].errorCounted)

\* a PUT answered 200 changes none of followed, rate_limit_hits and errors
C26_SilentResponse ==
    /\ Answered
    /\ Len(trail) = 1
    /\ PutAnswered(1)
    /\ trail[1].put.status = 200
    /\ response.followed = <<>>
    /\ response.rate_limit_hits = 0
    /\ response.errors = 0
    /\ response.consecutive_actions = 0

\* C27 as stated: every follow request that was issued is followed by a
\* jitter delay of getRandomDelay(), whatever its outcome.
C27_JitterAfterEveryAction ==
    \A i \in Steps : trail[i].putIssued => trail[i].jitter \in RandomDelays

\* the jitter delay follows the PUTs that did not make the iteration throw
C27_JitterUnlessThrown ==
    \A i \in Steps :
        /\ trail[i].putIssued /\ ~trail[i].threw => trail[i].jitter \in RandomDelays
        /\ trail[i].threw \/ ~trail[i].putIssued => trail[i].jitter = 0

\* a PUT answered 500: the batch takes no time at all after it
C27_NoJitterAfterFailure ==
    /\ Answered
    /\ Len(trail) = 1
    /\ PutAnswered(1)
    /\ trail[1].put.status = 500
    /\ trail[1].jitter = 0
    /\ response.errors = 1
    /\ response.monitoring.processing_time = PAGINATION_DELAY

\* C28 as stated: every candidate of the window is followed by the
\* CHECK_INTERVAL delay, whether it was followed, skipped or failed.
C28_IntervalAfterEveryCandidate ==
    \A i \in Steps : trail[i].interval = CHECK_INTERVAL

\* the CHECK_INTERVAL delay follows the candidates whose iteration did not
\* throw
C28_IntervalUnlessThrown ==
    \A i \in Steps :
        trail[i].interval = (IF trail[i].threw THEN 0 ELSE CHECK_INTERVAL)

\* two candidates whose PUTs are rejected: between them the batch waits for
\* nothing but the limiter's spacing of the second PUT
C28_NoIntervalAfterThrow ==
    /\ Answered
    /\ Len(trail) = 2
    /\ \A i \in Steps : trail[i].putIssued /\ trail[i].put.rejects
                          /\ trail[i].threw /\ trail[i].interval = 0
    /\ response.errors = 2
    /\ response.monitoring.processing_time =
          PAGINATION_DELAY + MIN_DELAY_BETWEEN_FOLLOWS

\* C29: a request with page p >= 1 and limit w >= 1 processes elements
\* (p-1)*w up to but excluding p*w of the list getAllFollowers returned, in
\* order; the pagination block reports p, w, the length of the list and
\* ceil(length / w); every place of the list lies in the window of exactly
\* one page of 1..total_pages, and a page beyond total_pages processes no
\* candidate.
C29_PageWindow ==
    Answered /\ batch.page >= 1 /\ batch.limit >= 1 =>
        LET p == batch.page
            w == batch.limit
            list == batch.allFollowers
            len == Len(list)
            last == IF p * w < len THEN p * w ELSE len
            count == IF last > (p - 1) * w THEN last - (p - 1) * w ELSE 0
            pages == response.pagination.total_pages
        IN  /\ list = returned
            /\ Len(response.processed) = count
            /\ \A i \in 1..count : response.processed[i] = list[(p - 1) * w + i]
            /\ response.total_processed = count
            /\ response.pagination.current_page = p
            /\ response.pagination.limit = w
            /\ response.pagination.total_followers = len
            /\ pages * w >= len /\ (pages - 1) * w < len
            /\ \A j \in 1..len :
                  Cardinality({ q \in 1..pages : (q - 1) * w < j /\ j <= q * w }) = 1
            /\ p > pages => response.processed = <<>>
            /\ p <= pages => count >= 1

\* the second page of two of a list of three followers: the third follower
C29_Witness ==
    /\ Answered
    /\ batch.page = 2
    /\ batch.limit = 2
    /\ Len(batch.allFollowers) = 3
    /\ response.processed = <<batch.allFollowers[3]>>
    /\ response.pagination.total_pages = 2

\* a page beyond the last one: nothing is processed
C29_PageBeyond ==
    /\ Answered
    /\ batch.page = 2
    /\ batch.limit = 2
    /\ Len(batch.allFollowers) = 2
    /\ response.processed = <<>>
    /\ response.pagination.total_pages = 1

\* the candidates among the first n of the window whose processing threw
Thrown(n) == { i \in 1..n : trail[i].threw }

\* C30: the errors value of the batch result is below ERROR_THRESHOLD: it is
\* the number of candidates whose processing threw in this batch modulo
\* ERROR_THRESHOLD, the counter being set to zero at each pause.
C30_ErrorsModuloThreshold ==
    /\ \A i \in Steps :
          /\ trail[i].errorCount = Cardinality(Thrown(i)) % ERROR_THRESHOLD
          /\ trail[i].paused <=>
                (trail[i].threw /\ Cardinality(Thrown(i)) % ERROR_THRESHOLD = 0)
    /\ Answered =>
          /\ response.errors < ERROR_THRESHOLD
          /\ response.errors = Cardinality(Thrown(Len(trail))) % ERROR_THRESHOLD

\* ERROR_THRESHOLD candidates failed and the result reports no error
C30_Witness ==
    /\ Answered
    /\ Cardinality(Thrown(Len(trail))) = ERROR_THRESHOLD
    /\ response.errors = 0
    /\ response.total_processed = ERROR_THRESHOLD

====
